---- MODULE Spec2Model ----
(***************************************************************************)
(* Model of the two developer scripts of the calendar repository:          *)
(*   scripts/git-workflow.js  (status parser, per-file description         *)
(*                             heuristic, commit message assembler,        *)
(*                             workflow driver, dry run)                   *)
(*   the GitHub bootstrap script (src/unnamed/part_000)                    *)
(*                                                                         *)
(* JavaScript strings are TLA+ strings; the String methods the scripts use *)
(* (trim, split, substring, endsWith, includes, replace) are defined below *)
(* character by character.  The four emoji that open the summary lines are *)
(* written as their gitmoji short codes, since the module is ASCII.        *)
(***************************************************************************)
EXTENDS Integers, Sequences, FiniteSets, TLC

VARIABLES
    pc,         \* where the running script is
    args,       \* process.argv.slice(2) of git-workflow.js, as a set of flags
    log,        \* the external commands and file system calls made so far
    exitCode,   \* the exit status of the process, -1 while it runs
    out,        \* what the script has printed or found out so far
    statusOut,  \* the outcome of the latest git status --porcelain
    oracle,     \* the outcomes of the reads and diffs of the latest analysis
    result,     \* what the latest generateCommitMessage call computed
    env         \* the machine the bootstrap script runs on

vars == <<pc, args, log, exitCode, out, statusOut, oracle, result, env>>

----------------------------------------------------------------------------
(* Bounds of the model *)

\* most status lines in one status text
MaxLines == 3

----------------------------------------------------------------------------
(* JavaScript String methods *)

Min(a, b) == IF a < b THEN a ELSE b

CharAt(s, i) == SubSeq(s, i, i)

IsSpace(c) == c \in {" ", "\n", "\t", "\r"}

RECURSIVE TrimStart(_)
TrimStart(s) ==
    IF Len(s) > 0 /\ IsSpace(CharAt(s, 1)) THEN TrimStart(SubSeq(s, 2, Len(s))) ELSE s

RECURSIVE TrimEnd(_)
TrimEnd(s) ==
    IF Len(s) > 0 /\ IsSpace(CharAt(s, Len(s))) THEN TrimEnd(SubSeq(s, 1, Len(s) - 1)) ELSE s

\* String.prototype.trim
Trim(s) == TrimEnd(TrimStart(s))

\* s.substring(a, b), 0 <= a <= b, b clamped to the length
Substring(s, a, b) == SubSeq(s, a + 1, Min(b, Len(s)))

\* s.substring(a)
SubstringFrom(s, a) == SubSeq(s, a + 1, Len(s))

\* s.endsWith(suffix)
EndsWith(s, suffix) ==
    /\ Len(suffix) <= Len(s)
    /\ SubSeq(s, Len(s) - Len(suffix) + 1, Len(s)) = suffix

\* s.includes(sub)
Includes(s, sub) ==
    \E i \in 1..(Len(s) - Len(sub) + 1) : SubSeq(s, i, i + Len(sub) - 1) = sub

\* s.indexOf(sep) + 1 for a one-character separator: 0 when sep is not in s
IndexOf(s, sep) ==
    LET at == { i \in 1..Len(s) : CharAt(s, i) = sep } IN
    IF at = {} THEN 0 ELSE CHOOSE i \in at : \A j \in at : i <= j

\* s.split(sep) for a one-character separator
RECURSIVE Split(_, _)
Split(s, sep) ==
    LET i == IndexOf(s, sep) IN
    IF i = 0 THEN <<s>>
    ELSE <<SubSeq(s, 1, i - 1)>> \o Split(SubSeq(s, i + 1, Len(s)), sep)

\* arr.join(sep)
RECURSIVE Join(_, _)
Join(arr, sep) ==
    IF Len(arr) = 0 THEN ""
    ELSE IF Len(arr) = 1 THEN arr[1]
    ELSE arr[1] \o sep \o Join(Tail(arr), sep)

\* arr.filter(line => line.trim())
RECURSIVE FilterNonBlank(_)
FilterNonBlank(arr) ==
    IF Len(arr) = 0 THEN <<>>
    ELSE IF Trim(arr[1]) # "" THEN <<arr[1]>> \o FilterNonBlank(Tail(arr))
    ELSE FilterNonBlank(Tail(arr))

\* s.replace(/\.(tsx|jsx)$/, "")
StripComponentExt(s) ==
    IF EndsWith(s, ".tsx") \/ EndsWith(s, ".jsx") THEN SubSeq(s, 1, Len(s) - 4) ELSE s

\* fileName.split("/").pop()
BaseName(fileName) == LET parts == Split(fileName, "/") IN parts[Len(parts)]

----------------------------------------------------------------------------
(* Results of the external commands and file reads *)

\* execSync / readFileSync threw
Failed == [ok |-> FALSE, text |-> ""]

\* execSync / readFileSync returned this text
Returned(t) == [ok |-> TRUE, text |-> t]

----------------------------------------------------------------------------
(* scripts/git-workflow.js *)

SPARKLES == ":sparkles:"
WRENCH == ":wrench:"
WASTEBASKET == ":wastebasket:"
ARROWS == ":arrows_counterclockwise:"

NoChanges == "No changes to commit"
UpdateProjectFiles == "Update project files"

\* a category lists its per-file descriptions when it has at most this many files
DetailLimit == 2

Categories == {"added", "modified", "deleted", "renamed"}

\* getGitStatus: the trimmed output of git status --porcelain, "" when it throws
getGitStatus(porcelain) == IF porcelain.ok THEN Trim(porcelain.text) ELSE ""

\* analyzeNewFile with the "script" test made before the "config" test
analyzeNewFile_scriptFirst(fileName, rd) ==
    IF ~rd.ok THEN "new file"
    ELSE IF EndsWith(fileName, ".tsx") \/ EndsWith(fileName, ".jsx") THEN
        IF Includes(rd.text, "export default function")
              \/ Includes(rd.text, "export default class")
        THEN "new React component: " \o StripComponentExt(BaseName(fileName))
        ELSE "new React component"
    ELSE IF EndsWith(fileName, ".ts") \/ EndsWith(fileName, ".js") THEN
        IF Includes(fileName, "script") THEN "new utility script"
        ELSE IF Includes(fileName, "config") THEN "new configuration file"
        ELSE "new TypeScript/JavaScript file"
    ELSE IF EndsWith(fileName, ".css") THEN "new stylesheet"
    ELSE IF EndsWith(fileName, ".json") THEN "new configuration"
    ELSE IF EndsWith(fileName, ".md") THEN "new documentation"
    ELSE "new file"

\* analyzeNewFile: rd is the outcome of fs.readFileSync(fileName)
analyzeNewFile(fileName, rd) ==
    IF ~rd.ok THEN "new file"
    ELSE IF EndsWith(fileName, ".tsx") \/ EndsWith(fileName, ".jsx") THEN
        IF Includes(rd.text, "export default function")
              \/ Includes(rd.text, "export default class")
        THEN "new React component: " \o StripComponentExt(BaseName(fileName))
        ELSE "new React component"
    ELSE IF EndsWith(fileName, ".ts") \/ EndsWith(fileName, ".js") THEN
        IF Includes(fileName, "config") THEN "new configuration file"
        ELSE IF Includes(fileName, "script") THEN "new utility script"
        ELSE "new TypeScript/JavaScript file"
    ELSE IF EndsWith(fileName, ".css") THEN "new stylesheet"
    ELSE IF EndsWith(fileName, ".json") THEN "new configuration"
    ELSE IF EndsWith(fileName, ".md") THEN "new documentation"
    ELSE "new file"

\* analyzeModifiedFile: df is the outcome of git diff --no-ext-diff fileName
analyzeModifiedFile(fileName, df) ==
    IF ~df.ok THEN "update file"
    ELSE IF EndsWith(fileName, ".tsx") \/ EndsWith(fileName, ".jsx") THEN
        IF Includes(df.text, "className=") THEN "update component styling"
        ELSE IF Includes(df.text, "import ") THEN "update component imports"
        ELSE IF Includes(df.text, "export default") THEN "update component structure"
        ELSE IF Includes(df.text, "//") \/ Includes(df.text, "/*")
             THEN "update component comments"
        ELSE "update React component"
    ELSE IF EndsWith(fileName, ".json") THEN
        IF Includes(df.text, "\"dependencies\"") THEN "update dependencies"
        ELSE IF Includes(df.text, "\"scripts\"") THEN "update npm scripts"
        ELSE "update configuration"
    ELSE IF EndsWith(fileName, ".css") THEN "update styles"
    ELSE IF EndsWith(fileName, ".md") THEN "update documentation"
    ELSE IF EndsWith(fileName, ".ts") \/ EndsWith(fileName, ".js") THEN "update code logic"
    ELSE "update file content"

\* line.substring(0, 2).trim()
statusCode(line) == Trim(Substring(line, 0, 2))

\* line.substring(3)
fileName(line) == SubstringFrom(line, 3)

\* categoryOf testing only the letter the code starts with
categoryOf_startsWith(line) ==
    LET code == CharAt(statusCode(line), 1) IN
    IF code = "A" THEN "added"
    ELSE IF code = "M" THEN "modified"
    ELSE IF code = "D" THEN "deleted"
    ELSE IF code = "R" THEN "renamed"
    ELSE ""

\* the category the forEach body routes a line to, "" when no branch matches
categoryOf(line) ==
    LET code == statusCode(line) IN
    IF code = "A" \/ code = "A " THEN "added"
    ELSE IF code = "M" \/ code = " M" THEN "modified"
    ELSE IF code = "D" \/ code = " D" THEN "deleted"
    ELSE IF code = "R" \/ code = "R " THEN "renamed"
    ELSE ""

\* the description the forEach body stores for a routed line; o is the outcome
\* of the file read (added) or of the diff (modified) made for this line
describe(line, o) ==
    LET cat == categoryOf(line) IN
    IF cat = "added" THEN analyzeNewFile(fileName(line), o)
    ELSE IF cat = "modified" THEN analyzeModifiedFile(fileName(line), o)
    ELSE IF cat = "deleted" THEN "deleted file"
    ELSE "renamed file"

\* forEachLine with a failed read or diff leaving the iteration before the push
forEachLine_dropOnFailure(line, o, acc) ==
    LET cat == categoryOf(line) IN
    IF cat = "" \/ (cat \in {"added", "modified"} /\ ~o.ok) THEN acc
    ELSE [changes |-> [acc.changes EXCEPT ![cat] = Append(@, fileName(line))],
          descriptions |-> (fileName(line) :> describe(line, o)) @@ acc.descriptions]

\* one iteration of lines.forEach
forEachLine(line, o, acc) ==
    LET cat == categoryOf(line) IN
    IF cat = "" THEN acc
    ELSE [changes |-> [acc.changes EXCEPT ![cat] = Append(@, fileName(line))],
          descriptions |-> (fileName(line) :> describe(line, o)) @@ acc.descriptions]

RECURSIVE forEachFrom(_, _, _, _)
forEachFrom(lines, i, orc, acc) ==
    IF i > Len(lines) THEN acc
    ELSE forEachFrom(lines, i + 1, orc, forEachLine(lines[i], orc[i], acc))

\* the lines analyzeFileChanges iterates over
statusLines(status) == FilterNonBlank(Split(status, "\n"))

\* analyzeFileChanges: porcelain is the outcome of git status --porcelain,
\* orc[i] the outcome of the read or diff made for the i-th line
analyzeFileChanges(porcelain, orc) ==
    LET status == getGitStatus(porcelain) IN
    IF status = "" THEN [changes |-> <<>>, descriptions |-> <<>>]
    ELSE forEachFrom(statusLines(status), 1, orc,
                     [changes |-> [c \in Categories |-> <<>>], descriptions |-> <<>>])

\* files.map(file => descriptions[file]).join(", ")
fileDescriptions(files, descriptions) ==
    Join([i \in 1..Len(files) |-> descriptions[files[i]]], ", ")

\* plural with the test n > 0
plural_fromOne(n) == IF n > 0 THEN "s" ELSE ""

plural(n) == IF n > 1 THEN "s" ELSE ""

\* message += "\n" when message is not empty
newline(message) == IF message # "" THEN message \o "\n" ELSE message

addedPart(changes, descriptions) ==
    LET n == Len(changes.added) IN
    IF n > 0
    THEN SPARKLES \o " Add " \o ToString(n) \o " new file" \o plural(n)
         \o (IF n <= DetailLimit
             THEN ": " \o fileDescriptions(changes.added, descriptions) ELSE "")
    ELSE ""

modifiedPart(message, changes, descriptions) ==
    LET n == Len(changes.modified) IN
    IF n > 0
    THEN newline(message) \o WRENCH \o " Update " \o ToString(n) \o " file" \o plural(n)
         \o (IF n <= DetailLimit
             THEN ": " \o fileDescriptions(changes.modified, descriptions) ELSE "")
    ELSE message

deletedPart(message, changes) ==
    LET n == Len(changes.deleted) IN
    IF n > 0
    THEN newline(message) \o WASTEBASKET \o " Remove " \o ToString(n) \o " file" \o plural(n)
    ELSE message

renamedPart(message, changes) ==
    LET n == Len(changes.renamed) IN
    IF n > 0
    THEN newline(message) \o ARROWS \o " Rename " \o ToString(n) \o " file" \o plural(n)
    ELSE message

\* generateCommitMessage, from the result of analyzeFileChanges
buildMessage(analysis) ==
    IF DOMAIN analysis.changes = {} THEN NoChanges
    ELSE LET m1 == addedPart(analysis.changes, analysis.descriptions)
             m2 == modifiedPart(m1, analysis.changes, analysis.descriptions)
             m3 == deletedPart(m2, analysis.changes)
             m4 == renamedPart(m3, analysis.changes)
         IN IF m4 # "" THEN m4 ELSE UpdateProjectFiles

generateCommitMessage(porcelain, orc) == buildMessage(analyzeFileChanges(porcelain, orc))

----------------------------------------------------------------------------
(* Inputs: what git status --porcelain prints, what the reads and diffs return *)

\* one status line as git prints it: the two-character code, a space, the path
StatusLine(code, path) == code \o " " \o path

\* the output of git status --porcelain: every line ends with a newline
RECURSIVE Porcelain(_)
Porcelain(lines) == IF Len(lines) = 0 THEN "" ELSE lines[1] \o "\n" \o Porcelain(Tail(lines))

\* the members of a set of indices in increasing order
RECURSIVE Ascending(_)
Ascending(S) ==
    IF S = {} THEN <<>>
    ELSE LET m == CHOOSE x \in S : \A y \in S : x <= y IN <<m>> \o Ascending(S \ {m})

\* git lists each changed path once, in path order: a listing takes some of the
\* paths (at most MaxLines) and gives each a status code
Listings(paths, codes) ==
    UNION { { LET idx == Ascending(S) IN
              [i \in 1..Len(idx) |-> StatusLine(c[idx[i]], paths[idx[i]])] : c \in [S -> codes] }
            : S \in { T \in SUBSET (1..Len(paths)) : Cardinality(T) <= MaxLines } }

\* status codes of git status --porcelain used as inputs: staged and unstaged
\* additions, modifications, deletions, a rename, two-letter codes, untracked
GenCodes == {"A ", "M ", " M", "D ", " D", "R ", "AM", "MM", "??"}

GenPaths == <<"a.tsx", "b.json", "c", "d.md">>

\* the codes for whose lines the script reads the file or asks for its diff
ConsultingCodes == {"A ", "M ", " M"}

GenOutcomes == {Failed, Returned("export default function f")}

\* orc[i] for every line; a line that is neither read nor diffed gets Failed
OraclesFor(lines, outcomes) ==
    { o \in [1..Len(lines) -> outcomes] :
        \A i \in 1..Len(lines) :
            Substring(lines[i], 0, 2) \notin ConsultingCodes => o[i] = Failed }

\* paths and contents that exercise every row of the description tables
RichPaths ==
    {"src/Button.tsx", "App.jsx", "next.config.ts", "scripts/run.js", "scripts/config.js",
     "lib/util.ts", "app/globals.css", "package.json", "README.md", "Makefile", "tsx"}

RichTexts ==
    {"", "export default function Button() {}", "export default class App {}",
     "export default", "+ className=\"x\" import a", "+import a from b // c",
     "+export default x // c", "+ /* c */", "+ // c", "+ x = 1",
     "+\"dependencies\": {} \"scripts\"", "+\"scripts\": {}"}

RichOutcomes == {Failed} \cup { Returned(t) : t \in RichTexts }

\* the git-workflow script does not look at the bootstrap script's machine
NoEnv == <<>>

NoResult == [changes |-> <<>>, descriptions |-> <<>>, message |-> ""]

\* everything generateCommitMessage computes
Generated(porcelain, orc) ==
    LET a == analyzeFileChanges(porcelain, orc) IN
    [changes |-> a.changes, descriptions |-> a.descriptions, message |-> buildMessage(a)]

----------------------------------------------------------------------------
(* SpecGen: generateCommitMessage applied to bounded inputs *)

GenInputs ==
    { <<Failed, <<>> >> }
    \cup UNION { { <<Returned(Porcelain(l)), o>> : o \in OraclesFor(l, GenOutcomes) }
                 : l \in Listings(GenPaths, GenCodes) }
    \cup { <<Returned(Porcelain(<<StatusLine(c, p)>>)), <<o>> >> :
             c \in {"A ", "M "}, p \in RichPaths, o \in RichOutcomes }

InitGen ==
    /\ pc = "generate"
    /\ args = {}
    /\ log = <<>>
    /\ exitCode = -1
    /\ out = <<>>
    /\ \E in \in GenInputs : statusOut = in[1] /\ oracle = in[2]
    /\ result = NoResult
    /\ env = NoEnv

Generate ==
    /\ pc = "generate"
    /\ result' = Generated(statusOut, oracle)
    /\ pc' = "generated"
    /\ UNCHANGED <<args, log, exitCode, out, statusOut, oracle, env>>

NextGen == Generate

SpecGen == InitGen /\ [][NextGen]_vars

----------------------------------------------------------------------------
(* Spec: one run of scripts/git-workflow.js, main() step by step.  Every      *)
(* external command is one step; its outcome is chosen by the environment.    *)

Flags == {"--help", "-h", "--dry-run"}

WfCodes == {"A ", " M", "??"}
WfPaths == <<"a.tsx", "b.json">>

\* what one call of generateCommitMessage may find: the outcome of its status
\* read and of the reads and diffs it makes
WfInputs ==
    { <<Failed, <<>> >> }
    \cup UNION { { <<Returned(Porcelain(l)), o>> : o \in OraclesFor(l, GenOutcomes) }
                 : l \in Listings(WfPaths, WfCodes) }

WfStatusOuts == { in[1] : in \in WfInputs }

NoOutput == [status |-> "", message |-> "", noChanges |-> FALSE, completed |-> FALSE]

Cmd(cmd, arg, ok) == [cmd |-> cmd, arg |-> arg, ok |-> ok]

\* the read or diff analyzeFileChanges makes for each line, in order
RECURSIVE analysisCommands(_, _, _)
analysisCommands(lines, i, orc) ==
    IF i > Len(lines) THEN <<>>
    ELSE LET cat == categoryOf(lines[i])
             rest == analysisCommands(lines, i + 1, orc)
         IN IF cat = "added" THEN <<Cmd("readFileSync", fileName(lines[i]), orc[i].ok)>> \o rest
            ELSE IF cat = "modified" THEN <<Cmd("git diff", fileName(lines[i]), orc[i].ok)>> \o rest
            ELSE rest

\* the commands one call of generateCommitMessage runs
generateCommands(porcelain, orc) ==
    <<Cmd("git status --porcelain", getGitStatus(porcelain), porcelain.ok)>>
    \o analysisCommands(statusLines(getGitStatus(porcelain)), 1, orc)

Init ==
    /\ pc = "main"
    /\ args \in SUBSET Flags
    /\ log = <<>>
    /\ exitCode = -1
    /\ out = NoOutput
    /\ statusOut = Failed
    /\ oracle = <<>>
    /\ result = NoResult
    /\ env = NoEnv

\* process.exit(code), or main returning (code 0)
Exit(code) == pc' = "exited" /\ exitCode' = code

\* main, lines 255-260 and the two tests that follow
Main ==
    /\ pc = "main"
    /\ IF "--help" \in args \/ "-h" \in args THEN Exit(0)
       ELSE /\ pc' = (IF "--dry-run" \in args THEN "dryRun" ELSE "executeGitWorkflow")
            /\ UNCHANGED exitCode
    /\ UNCHANGED <<args, log, out, statusOut, oracle, result, env>>

\* main, lines 263-271: the status read of the dry run
DryRunStatus ==
    /\ pc = "dryRun"
    /\ \E so \in WfStatusOuts :
          LET status == getGitStatus(so) IN
          /\ statusOut' = so
          /\ log' = Append(log, Cmd("git status --porcelain", status, so.ok))
          /\ IF status # ""
             THEN /\ out' = [out EXCEPT !.status = status]
                  /\ pc' = "dryRunMessage"
                  /\ UNCHANGED exitCode
             ELSE /\ out' = [out EXCEPT !.noChanges = TRUE]
                  /\ Exit(0)
    /\ UNCHANGED <<args, oracle, result, env>>

\* DryRunMessage without the return that ends the dry run
DryRunMessage_fallsThrough ==
    /\ pc = "dryRunMessage"
    /\ \E in \in WfInputs :
          /\ statusOut' = in[1]
          /\ oracle' = in[2]
          /\ result' = Generated(in[1], in[2])
          /\ log' = log \o generateCommands(in[1], in[2])
          /\ out' = [out EXCEPT !.message = generateCommitMessage(in[1], in[2])]
    /\ pc' = "executeGitWorkflow"
    /\ UNCHANGED <<args, exitCode, env>>

\* main, lines 268 and 272: the dry run prints the generated message and returns
DryRunMessage ==
    /\ pc = "dryRunMessage"
    /\ \E in \in WfInputs :
          /\ statusOut' = in[1]
          /\ oracle' = in[2]
          /\ result' = Generated(in[1], in[2])
          /\ log' = log \o generateCommands(in[1], in[2])
          /\ out' = [out EXCEPT !.message = generateCommitMessage(in[1], in[2])]
    /\ Exit(0)
    /\ UNCHANGED <<args, env>>

\* executeGitWorkflow, lines 191-195
CheckGitInitialized ==
    /\ pc = "executeGitWorkflow"
    /\ \E ok \in BOOLEAN :
          /\ log' = Append(log, Cmd("git status", "", ok))
          /\ IF ok THEN pc' = "status" /\ UNCHANGED exitCode ELSE Exit(1)
    /\ UNCHANGED <<args, out, statusOut, oracle, result, env>>

\* executeGitWorkflow, lines 197-206
ReadStatus ==
    /\ pc = "status"
    /\ \E so \in WfStatusOuts :
          LET status == getGitStatus(so) IN
          /\ statusOut' = so
          /\ log' = Append(log, Cmd("git status --porcelain", status, so.ok))
          /\ IF status # ""
             THEN /\ out' = [out EXCEPT !.status = status]
                  /\ pc' = "stage"
                  /\ UNCHANGED exitCode
             ELSE /\ out' = [out EXCEPT !.noChanges = TRUE]
                  /\ Exit(0)
    /\ UNCHANGED <<args, oracle, result, env>>

\* executeGitWorkflow, line 211, and the catch block when git add fails
Stage ==
    /\ pc = "stage"
    /\ \E ok \in BOOLEAN :
          /\ log' = Append(log, Cmd("git add .", "", ok))
          /\ IF ok THEN pc' = "message" /\ UNCHANGED exitCode ELSE Exit(1)
    /\ UNCHANGED <<args, out, statusOut, oracle, result, env>>

\* GenerateMessage taking the status that was printed instead of reading it again
GenerateMessage_fromPrintedStatus ==
    /\ pc = "message"
    /\ \E orc \in OraclesFor(statusLines(out.status), GenOutcomes) :
          /\ oracle' = orc
          /\ result' = Generated(Returned(out.status), orc)
          /\ log' = log \o analysisCommands(statusLines(out.status), 1, orc)
          /\ out' = [out EXCEPT !.message = generateCommitMessage(Returned(out.status), orc)]
    /\ pc' = "commit"
    /\ UNCHANGED <<args, exitCode, statusOut, env>>

\* executeGitWorkflow, lines 214-215
GenerateMessage ==
    /\ pc = "message"
    /\ \E in \in WfInputs :
          /\ statusOut' = in[1]
          /\ oracle' = in[2]
          /\ result' = Generated(in[1], in[2])
          /\ log' = log \o generateCommands(in[1], in[2])
          /\ out' = [out EXCEPT !.message = generateCommitMessage(in[1], in[2])]
    /\ pc' = "commit"
    /\ UNCHANGED <<args, exitCode, env>>

\* Commit going on to the push whether or not git commit failed
Commit_ignoresFailure ==
    /\ pc = "commit"
    /\ \E ok \in BOOLEAN : log' = Append(log, Cmd("git commit", out.message, ok))
    /\ pc' = "push"
    /\ UNCHANGED <<args, exitCode, out, statusOut, oracle, result, env>>

\* executeGitWorkflow, line 219, and the catch block when git commit fails
Commit ==
    /\ pc = "commit"
    /\ \E ok \in BOOLEAN :
          /\ log' = Append(log, Cmd("git commit", out.message, ok))
          /\ IF ok THEN pc' = "push" /\ UNCHANGED exitCode ELSE Exit(1)
    /\ UNCHANGED <<args, out, statusOut, oracle, result, env>>

\* executeGitWorkflow, lines 223-225, and the catch block when git push fails
Push ==
    /\ pc = "push"
    /\ \E ok \in BOOLEAN :
          /\ log' = Append(log, Cmd("git push", "", ok))
          /\ IF ok THEN out' = [out EXCEPT !.completed = TRUE] /\ Exit(0)
             ELSE UNCHANGED out /\ Exit(1)
    /\ UNCHANGED <<args, statusOut, oracle, result, env>>

Next ==
    \/ Main
    \/ DryRunStatus
    \/ DryRunMessage
    \/ CheckGitInitialized
    \/ ReadStatus
    \/ Stage
    \/ GenerateMessage
    \/ Commit
    \/ Push

Spec == Init /\ [][Next]_vars

----------------------------------------------------------------------------
(* C1, C2, C3, C10: the workflow driver *)

\* the positions of a command in the log of the run
Positions(cmd) == { i \in 1..Len(log) : log[i].cmd = cmd }

\* every run of cmd comes after a successful run of earlier
OnlyAfterSuccess(earlier, cmd) ==
    \A i \in Positions(cmd) : \E j \in Positions(earlier) : j < i /\ log[j].ok

FullWorkflow == args = {}

\* C1: in the full workflow the steps run in the order repository check,
\* status read, git add, git commit, git push, each at most once and only after
\* the step before it succeeded (the status read: returned a non-empty status);
\* a failed repository check, git add or git commit is the last command of the
\* run, which ends with exit status 1 and without the success message.
C1_StepsInOrder ==
    FullWorkflow =>
        /\ \A cmd \in {"git status", "git add .", "git commit", "git push"} :
              Cardinality(Positions(cmd)) <= 1
        /\ OnlyAfterSuccess("git status", "git status --porcelain")
        /\ \A i \in Positions("git add .") :
              \E j \in Positions("git status --porcelain") : j < i /\ log[j].ok /\ log[j].arg # ""
        /\ OnlyAfterSuccess("git add .", "git commit")
        /\ OnlyAfterSuccess("git commit", "git push")
        /\ \A i \in 1..Len(log) :
              log[i].cmd \in {"git status", "git add .", "git commit"} /\ ~log[i].ok =>
                  /\ i = Len(log)
                  /\ pc = "exited"
                  /\ exitCode = 1
                  /\ ~out.completed

\* git commit failed after a successful git add: no push, exit status 1
C1_Witness ==
    /\ FullWorkflow
    /\ pc = "exited"
    /\ exitCode = 1
    /\ \E a \in Positions("git add .") : log[a].ok
    /\ \E c \in Positions("git commit") : ~log[c].ok
    /\ Positions("git push") = {}

\* C2: with --dry-run no git add, git commit or git push is ever run: only
\* status reads, file reads and diffs are, and the run ends with exit status 0.
C2_DryRunReadsOnly ==
    "--dry-run" \in args =>
        /\ \A i \in 1..Len(log) :
              log[i].cmd \in {"git status --porcelain", "readFileSync", "git diff"}
        /\ pc = "exited" => exitCode = 0
        /\ ~out.completed

\* a dry run that printed a status and a message built from a diff
C2_Witness ==
    /\ "--dry-run" \in args
    /\ pc = "exited"
    /\ out.status # ""
    /\ out.message = ":wrench: Update 1 file: update configuration"
    /\ Positions("git diff") # {}

\* generateCommitMessage has been called in this run
MessageGenerated == result.message # ""

\* C3: the generator returns the sentinel for an empty status and only for an
\* empty status, and a run in which it returns the sentinel stages, commits and
\* pushes nothing: the sentinel is never the message of a commit.
C3_SentinelMeansNothingDone ==
    MessageGenerated =>
        /\ getGitStatus(statusOut) = "" <=> result.message = NoChanges
        /\ result.message = NoChanges =>
              /\ Positions("git add .") = {}
              /\ Positions("git commit") = {}
              /\ Positions("git push") = {}

\* the sentinel given to git commit as the message
C3_FailingRun ==
    /\ FullWorkflow
    /\ \E c \in Positions("git commit") : log[c].arg = NoChanges

\* C10: in the full workflow the message given to git commit is built from a
\* status read made after git add succeeded and before git commit, with no
\* other status read in between; the status printed under "Changes detected"
\* comes from an earlier read, made before git add.
C10_MessageFromSecondRead ==
    FullWorkflow =>
        \A c \in Positions("git commit") :
            \E p, a, r \in 1..Len(log) :
                /\ p < a /\ a < r /\ r < c
                /\ log[p].cmd = "git status --porcelain" /\ log[p].arg = out.status
                /\ log[a].cmd = "git add ." /\ log[a].ok
                /\ log[r].cmd = "git status --porcelain"
                /\ log[r].arg = getGitStatus(statusOut)
                /\ \A k \in (r + 1)..(c - 1) : log[k].cmd \in {"readFileSync", "git diff"}
                /\ log[c].arg = generateCommitMessage(statusOut, oracle)

\* the commit message describes b.json, the status printed listed a.tsx
C10_Witness ==
    /\ FullWorkflow
    /\ out.status = "A  a.tsx"
    /\ getGitStatus(statusOut) = "A  b.json"
    /\ \E c \in Positions("git commit") :
          log[c].arg = ":sparkles: Add 1 new file: new configuration"

----------------------------------------------------------------------------
(* SpecBootstrap: one run of the GitHub bootstrap script (part_000).  The     *)
(* machine it runs on is chosen at the start: whether package.json can be     *)
(* read and names the app, whether gh is installed and logged in, whether     *)
(* .git exists, whether git init and gh repo create would succeed.            *)

\* package.json: unreadable or not JSON, without a name, or naming the app
Manifests == {"<unreadable>", "<no name>", "calendar"}

\* path.basename(process.cwd())
currentDir == "workspace"

Machines ==
    [manifest : Manifests, ghInstalled : BOOLEAN, ghAuthenticated : BOOLEAN,
     dotGit : BOOLEAN, gitInitWorks : BOOLEAN, createWorks : BOOLEAN]

NoBootOutput == [appName |-> "", created |-> FALSE]

InitBootstrap ==
    /\ pc = "load"
    /\ args = {}
    /\ log = <<>>
    /\ exitCode = -1
    /\ out = NoBootOutput
    /\ statusOut = Failed
    /\ oracle = <<>>
    /\ result = NoResult
    /\ env \in Machines

\* lines 8-9: an exception here is uncaught and ends the process with status 1
LoadManifest ==
    /\ pc = "load"
    /\ log' = Append(log, Cmd("readFileSync", "package.json", env.manifest # "<unreadable>"))
    /\ IF env.manifest = "<unreadable>" THEN Exit(1) /\ UNCHANGED out
       ELSE /\ out' = [out EXCEPT !.appName = IF env.manifest = "<no name>" THEN "" ELSE env.manifest]
            /\ pc' = "checkGitHubCLI"
            /\ UNCHANGED exitCode
    /\ UNCHANGED <<args, statusOut, oracle, result, env>>

\* main, lines 68-72, with checkGitHubCLI
CheckGitHubCLI ==
    /\ pc = "checkGitHubCLI"
    /\ log' = Append(log, Cmd("gh --version", "", env.ghInstalled))
    /\ IF env.ghInstalled THEN pc' = "checkGitHubAuth" /\ UNCHANGED exitCode ELSE Exit(1)
    /\ UNCHANGED <<args, out, statusOut, oracle, result, env>>

\* CheckGitHubAuth going on when gh auth status fails
CheckGitHubAuth_noExit ==
    /\ pc = "checkGitHubAuth"
    /\ log' = Append(log, Cmd("gh auth status", "", env.ghAuthenticated))
    /\ pc' = "ensureGit"
    /\ UNCHANGED <<args, exitCode, out, statusOut, oracle, result, env>>

\* main, lines 74-78, with checkGitHubAuth
CheckGitHubAuth ==
    /\ pc = "checkGitHubAuth"
    /\ log' = Append(log, Cmd("gh auth status", "", env.ghAuthenticated))
    /\ IF env.ghAuthenticated THEN pc' = "ensureGit" /\ UNCHANGED exitCode ELSE Exit(1)
    /\ UNCHANGED <<args, out, statusOut, oracle, result, env>>

\* main, lines 81-89: git init when there is no .git
EnsureGitRepository ==
    /\ pc = "ensureGit"
    /\ IF env.dotGit
       THEN /\ log' = Append(log, Cmd("existsSync", ".git", TRUE))
            /\ pc' = "createGitHubRepo"
            /\ UNCHANGED <<exitCode, env>>
       ELSE /\ log' = log \o <<Cmd("existsSync", ".git", FALSE), Cmd("git init", "", env.gitInitWorks)>>
            /\ IF env.gitInitWorks
               THEN /\ env' = [env EXCEPT !.dotGit = TRUE]
                    /\ pc' = "createGitHubRepo"
                    /\ UNCHANGED exitCode
               ELSE Exit(1) /\ UNCHANGED env
    /\ UNCHANGED <<args, out, statusOut, oracle, result>>

\* createGitHubRepo, lines 35-62, after which main returns
CreateGitHubRepo ==
    /\ pc = "createGitHubRepo"
    /\ LET repoName == IF out.appName # "" THEN out.appName ELSE currentDir IN
       log' = Append(log, Cmd("gh repo create", repoName, env.createWorks))
    /\ out' = [out EXCEPT !.created = env.createWorks]
    /\ Exit(0)
    /\ UNCHANGED <<args, statusOut, oracle, result, env>>

NextBootstrap ==
    \/ LoadManifest
    \/ CheckGitHubCLI
    \/ CheckGitHubAuth
    \/ EnsureGitRepository
    \/ CreateGitHubRepo

SpecBootstrap == InitBootstrap /\ [][NextBootstrap]_vars

----------------------------------------------------------------------------
(* C9 *)

\* C9: when gh is absent, or present without an authenticated session, the run
\* ends with exit status 1 and attempts neither git init nor gh repo create;
\* gh repo create is attempted only after both checks passed and with a local
\* repository that existed or was initialised successfully.
C9_NoCreationWithoutPrerequisites ==
    /\ ~env.ghInstalled \/ ~env.ghAuthenticated =>
          /\ Positions("git init") = {}
          /\ Positions("gh repo create") = {}
          /\ pc = "exited" => exitCode = 1
    /\ \A i \in 1..Len(log) :
          log[i].cmd \in {"gh --version", "gh auth status"} /\ ~log[i].ok =>
              i = Len(log) /\ pc = "exited" /\ exitCode = 1
    /\ \A c \in Positions("gh repo create") :
          /\ \E v, a \in 1..(c - 1) :
                /\ v < a
                /\ log[v].cmd = "gh --version" /\ log[v].ok
                /\ log[a].cmd = "gh auth status" /\ log[a].ok
          /\ env.dotGit
          /\ \A g \in Positions("git init") : g < c /\ log[g].ok

\* gh is installed but not logged in: exit status 1, nothing initialised or created
C9_Witness ==
    /\ env.ghInstalled /\ ~env.ghAuthenticated /\ ~env.dotGit
    /\ pc = "exited"
    /\ exitCode = 1
    /\ Len(log) = 3
    /\ log[3] = Cmd("gh auth status", "", FALSE)

----------------------------------------------------------------------------
(* The input as git printed it, read independently of the script's parser *)

Range(f) == { f[i] : i \in DOMAIN f }

\* the status lines of the raw output of git status --porcelain
RawLines ==
    IF statusOut.ok THEN SelectSeq(Split(statusOut.text, "\n"), LAMBDA l : l # "") ELSE <<>>

\* the two-character status code of a raw line, and the path after the separator
RawCode(l) == SubSeq(l, 1, 2)
RawPath(l) == SubSeq(l, 4, Len(l))

\* a status code without its blank
CodeLetters(code) ==
    IF CharAt(code, 1) = " " THEN CharAt(code, 2)
    ELSE IF CharAt(code, 2) = " " THEN CharAt(code, 1)
    ELSE code

LetterCategory(letter) ==
    CASE letter = "A" -> "added"
      [] letter = "M" -> "modified"
      [] letter = "D" -> "deleted"
      [] letter = "R" -> "renamed"
      [] OTHER -> ""

\* routing by the whole code: its one letter, whichever side the blank is on
ExactCategory(code) == LetterCategory(CodeLetters(code))

\* routing by the letter the code starts with (a leading blank skipped)
StartsWithCategory(code) == LetterCategory(CharAt(CodeLetters(code), 1))

\* the raw lines a routing sends to a category, in input order
RoutedTo(route(_), cat) == SelectSeq(RawLines, LAMBDA l : route(RawCode(l)) = cat)

RoutedPaths(route(_), cat) ==
    LET ls == RoutedTo(route, cat) IN [i \in 1..Len(ls) |-> RawPath(ls[i])]

AllListed ==
    UNION { Range(result.changes[cat]) : cat \in DOMAIN result.changes }

Analysed == pc = "generated" /\ DOMAIN result.changes # {}

----------------------------------------------------------------------------
(* C4 *)

\* C4 as stated: every line is routed by the letter its code starts with (A ->
\* added, M -> modified, D -> deleted, R -> renamed), other lines are dropped.
C4_RoutedByFirstLetter ==
    Analysed =>
        /\ \A cat \in Categories :
              Len(result.changes[cat]) = Len(RoutedTo(StartsWithCategory, cat))
        /\ DOMAIN result.descriptions = AllListed

\* C4 amended: every line is routed into at most one category by its whole
\* status code with the blank removed: exactly A -> added, M -> modified, D ->
\* deleted, R -> renamed; a line with any other code (two letters such as AM or
\* MM, or ??) is dropped, adds no entry and no description, and the lines around
\* it are still routed.
C4_RoutedByExactCode ==
    Analysed =>
        /\ \A cat \in Categories :
              Len(result.changes[cat]) = Len(RoutedTo(ExactCategory, cat))
        /\ DOMAIN result.descriptions = AllListed

\* a two-letter line is dropped between two routed lines
C4_Witness ==
    /\ Analysed
    /\ Len(RawLines) = 3
    /\ RawCode(RawLines[1]) = "A "
    /\ RawCode(RawLines[2]) = "AM"
    /\ RawCode(RawLines[3]) = " M"
    /\ Len(result.changes.added) = 1
    /\ Len(result.changes.modified) = 1

----------------------------------------------------------------------------
(* C5 *)

\* C5: each category holds exactly the paths of the lines routed to it, each
\* path unaltered and in input order, and the description map has exactly one
\* entry for each of those paths, also when the first line's code begins with
\* a space.
C5_PathsUnaltered ==
    Analysed =>
        /\ \A cat \in Categories :
              result.changes[cat] = RoutedPaths(ExactCategory, cat)
        /\ DOMAIN result.descriptions
              = UNION { Range(RoutedPaths(ExactCategory, cat)) : cat \in Categories }

\* the first line's code begins with a space and its path has lost a character
C5_FailingInput ==
    /\ Analysed
    /\ statusOut.text = " M a.tsx\n"
    /\ result.changes.modified = <<".tsx">>

----------------------------------------------------------------------------
(* C6 *)

CategoryOrder == <<"added", "modified", "deleted", "renamed">>

SummaryHead(cat) ==
    CASE cat = "added" -> SPARKLES \o " Add "
      [] cat = "modified" -> WRENCH \o " Update "
      [] cat = "deleted" -> WASTEBASKET \o " Remove "
      [] cat = "renamed" -> ARROWS \o " Rename "

CountedFiles(cat, n) ==
    ToString(n) \o (IF cat = "added" THEN " new " ELSE " ")
                \o (IF n = 1 THEN "file" ELSE "files")

\* the summary line of a non-empty category; the categories in `detailed` list
\* their per-file descriptions when they have at most two files
SummaryLine(cat, detailed) ==
    LET files == result.changes[cat]
        descs == [i \in 1..Len(files) |-> result.descriptions[files[i]]]
    IN SummaryHead(cat) \o CountedFiles(cat, Len(files))
       \o (IF cat \in detailed /\ Len(files) <= 2 THEN ": " \o Join(descs, ", ") ELSE "")

NonEmptyCategories == SelectSeq(CategoryOrder, LAMBDA cat : Len(result.changes[cat]) > 0)

ExpectedMessage(detailed) ==
    IF Len(NonEmptyCategories) = 0 THEN "Update project files"
    ELSE Join([i \in 1..Len(NonEmptyCategories) |-> SummaryLine(NonEmptyCategories[i], detailed)],
              "\n")

\* C6 as stated: one summary line per non-empty category in the order added,
\* modified, deleted, renamed, joined by newlines, and each of the four
\* categories lists its descriptions iff it has at most two files.
C6_DetailInEveryCategory ==
    Analysed => result.message = ExpectedMessage(Categories)

\* C6 amended: one summary line per non-empty category in the order added,
\* modified, deleted, renamed, joined by single newlines with no empty line,
\* "file" pluralised iff the count is greater than 1; the added and the
\* modified line are followed by ": " and the descriptions joined with ", "
\* iff the category has at most two files, the deleted and the renamed line
\* never are; with no line at all the message is "Update project files".
C6_DetailInAddedAndModified ==
    Analysed =>
        /\ result.message = ExpectedMessage({"added", "modified"})
        /\ Len(NonEmptyCategories) > 0 =>
              /\ Len(Split(result.message, "\n")) = Len(NonEmptyCategories)
              /\ "" \notin Range(Split(result.message, "\n"))

\* two added files listed with their descriptions, one deleted file without
C6_Witness ==
    /\ Analysed
    /\ Len(result.changes.added) = 2
    /\ Len(result.changes.deleted) = 1
    /\ result.message
         = ":sparkles: Add 2 new files: new React component: a, new file\n:wastebasket: Remove 1 file"

----------------------------------------------------------------------------
(* C7 *)

\* the lines as the parser sees them, and the path it passes on for each
ParsedLines == statusLines(getGitStatus(statusOut))

\* the label of the first row of an ordered table whose condition holds
FirstMatch(table) ==
    table[CHOOSE i \in 1..Len(table) : table[i].when /\ \A j \in 1..(i - 1) : ~table[j].when].label

IsComponent(path) == EndsWith(path, ".tsx") \/ EndsWith(path, ".jsx")
IsScript(path) == EndsWith(path, ".ts") \/ EndsWith(path, ".js")

NameWithoutExtension(path) == LET b == BaseName(path) IN SubSeq(b, 1, Len(b) - 4)

NewFileTable(path, content) ==
    << [when |-> IsComponent(path) /\ (Includes(content, "export default function")
                                        \/ Includes(content, "export default class")),
        label |-> "new React component: " \o NameWithoutExtension(path)],
       [when |-> IsComponent(path), label |-> "new React component"],
       [when |-> IsScript(path) /\ Includes(path, "config"), label |-> "new configuration file"],
       [when |-> IsScript(path) /\ Includes(path, "script"), label |-> "new utility script"],
       [when |-> IsScript(path), label |-> "new TypeScript/JavaScript file"],
       [when |-> EndsWith(path, ".css"), label |-> "new stylesheet"],
       [when |-> EndsWith(path, ".json"), label |-> "new configuration"],
       [when |-> EndsWith(path, ".md"), label |-> "new documentation"],
       [when |-> TRUE, label |-> "new file"] >>

ModifiedComponentTable(diff) ==
    << [when |-> Includes(diff, "className="), label |-> "update component styling"],
       [when |-> Includes(diff, "import "), label |-> "update component imports"],
       [when |-> Includes(diff, "export default"), label |-> "update component structure"],
       [when |-> Includes(diff, "//") \/ Includes(diff, "/*"),
        label |-> "update component comments"],
       [when |-> TRUE, label |-> "update React component"] >>

ModifiedJsonTable(diff) ==
    << [when |-> Includes(diff, "\"dependencies\""), label |-> "update dependencies"],
       [when |-> Includes(diff, "\"scripts\""), label |-> "update npm scripts"],
       [when |-> TRUE, label |-> "update configuration"] >>

\* C7: the description stored for an added or modified file whose content or
\* diff was read is the label of the first matching row of the ordered tables:
\* the new-file table for an added file, the component table for a modified
\* .tsx/.jsx file, the JSON table for a modified .json file.
C7_FirstMatchTables ==
    Analysed =>
        \A i \in 1..Len(ParsedLines) :
            LET path == fileName(ParsedLines[i])
                cat == categoryOf(ParsedLines[i])
                desc == result.descriptions[path]
            IN oracle[i].ok =>
                /\ cat = "added" => desc = FirstMatch(NewFileTable(path, oracle[i].text))
                /\ cat = "modified" /\ IsComponent(path) =>
                      desc = FirstMatch(ModifiedComponentTable(oracle[i].text))
                /\ cat = "modified" /\ EndsWith(path, ".json") =>
                      desc = FirstMatch(ModifiedJsonTable(oracle[i].text))

\* an added script whose path holds both "config" and "script": the earlier row wins
C7_Witness ==
    /\ Analysed
    /\ statusOut.text = "A  scripts/config.js\n"
    /\ oracle[1].ok
    /\ result.descriptions["scripts/config.js"] = "new configuration file"

----------------------------------------------------------------------------
(* C8 *)

SuccessfulOutcomes == { o \in GenOutcomes : o.ok } \cup {Returned(""), Returned("+\"dependencies\": {}")}

\* C8: a failed read of an added file gives exactly "new file", a failed diff of
\* a modified file exactly "update file"; the path the read or diff was made for
\* is still listed in its category; the categories and every other file's
\* description are what they are when the read or diff succeeds; and a commit
\* message is produced.
C8_FailureStaysLocal ==
    Analysed =>
        \A i \in 1..Len(ParsedLines) :
            LET path == fileName(ParsedLines[i])
                cat == categoryOf(ParsedLines[i])
            IN ~oracle[i].ok /\ cat \in {"added", "modified"} =>
                /\ path \in Range(result.changes[cat])
                /\ path \in DOMAIN result.descriptions
                /\ result.descriptions[path] = (IF cat = "added" THEN "new file" ELSE "update file")
                /\ \A o \in SuccessfulOutcomes :
                      LET alt == Generated(statusOut, [oracle EXCEPT ![i] = o]) IN
                      /\ alt.changes = result.changes
                      /\ \A k \in DOMAIN result.descriptions \ {path} :
                            alt.descriptions[k] = result.descriptions[k]
                /\ result.message \notin {"", NoChanges}

\* the diff of b.json failed, a.tsx next to it is described from its content
C8_Witness ==
    /\ Analysed
    /\ statusOut.text = "A  a.tsx\nM  b.json\n"
    /\ ~oracle[2].ok
    /\ result.descriptions["b.json"] = "update file"
    /\ result.descriptions["a.tsx"] = "new React component: a"
    /\ result.message
         = ":sparkles: Add 1 new file: new React component: a\n:wrench: Update 1 file: update file"

====
